---- MODULE Spec2Model ----
(***************************************************************************)
(* The Sparkplug B consumer of src/mqtt-client.py: on_message, parse_payload*)
(* and store_data over the two SQLite relations created by setup_database.  *)
(* store_data is followed statement by statement; the database file holds   *)
(* what is committed, the open connection holds what is not.                *)
(***************************************************************************)
EXTENDS Integers, Sequences, FiniteSets, TLC

\* ---------------------------------------------------------------- bounds
MaxMsgs == 2        \* messages delivered in one run
MaxTs == 2          \* envelope timestamps range over 1..MaxTs

\* ------------------------------------------------------- python / sql values
\* Python None bound as an SQL parameter (SQL NULL).  No topic segment can
\* equal it: a segment produced by split('/') never contains '/'.
None == "/None"

\* parse_payload's None (the value that is not a dict)
PyNone == [NoneType |-> TRUE]

\* the empty dict {}
EmptyDict == [k \in {} |-> TRUE]

\* str(n) of a small non-negative int, and int(s)
DecimalStrings ==
  <<"0", "1", "2", "3", "4", "5", "6", "7", "8", "9", "10", "11", "12", "13", "14", "15">>

str_int(n) == DecimalStrings[n + 1]

int_str(s) == CHOOSE n \in 0..(Len(DecimalStrings) - 1) : DecimalStrings[n + 1] = s

\* str(b) of a Python bool
str_bool(b) == IF b THEN "True" ELSE "False"

\* SQL comparison a = b in a WHERE clause or a uniqueness check: never true
\* when either side is NULL
SqlEq(a, b) == a # None /\ b # None /\ a = b

\* ------------------------------------------------------------------ topics
\* A topic string is a sequence of tokens; "/" is the delimiter token.
RECURSIVE Join(_)
Join(segs) ==
  IF Len(segs) = 0 THEN <<>>
  ELSE IF Len(segs) = 1 THEN <<segs[1]>>
  ELSE <<segs[1], "/">> \o Join(Tail(segs))

SegmentText(toks) == IF toks = <<>> THEN "" ELSE toks[1]

RECURSIVE split(_)
split(topic) ==
  LET delims == {k \in 1..Len(topic) : topic[k] = "/"}
  IN IF delims = {} THEN <<SegmentText(topic)>>
     ELSE LET k == CHOOSE x \in delims : \A y \in delims : x <= y
          IN <<SegmentText(SubSeq(topic, 1, k - 1))>>
               \o split(SubSeq(topic, k + 1, Len(topic)))

GROUP_ID == "Group01"
EDGE_NODE_ID == "Node01"
DEVICE_ID == "Device01"

Topics ==
  { Join(<<"spBv1.0", GROUP_ID, "NBIRTH", EDGE_NODE_ID>>),
    Join(<<"spBv1.0", GROUP_ID, "NDEATH", EDGE_NODE_ID>>),
    Join(<<"spBv1.0", GROUP_ID, "DBIRTH", EDGE_NODE_ID, DEVICE_ID>>),
    Join(<<"spBv1.0", GROUP_ID, "DDEATH", EDGE_NODE_ID, DEVICE_ID>>),
    Join(<<"spBv1.0", GROUP_ID, "DDATA", EDGE_NODE_ID, "Device02">>),
    Join(<<"spBv1.0", GROUP_ID, "NDATA">>),
    Join(<<"spBv1.0", GROUP_ID, "ndeath", EDGE_NODE_ID>>),
    Join(<<"spBv1.0", GROUP_ID, "STATE", EDGE_NODE_ID, DEVICE_ID>>),
    Join(<<"factory", GROUP_ID, "DDATA", EDGE_NODE_ID, DEVICE_ID>>) }

\* ---------------------------------------------------------------- payloads
\* A Payload message holds only the fields that are set.  Metric entries:
\* one with its own timestamp and an int value, one with no value field,
\* one boolean without a timestamp of its own.
MetricTs == 9

SampleMetrics ==
  << [name |-> "Temperature", timestamp |-> MetricTs, datatype |-> 3, intValue |-> 5],
     [name |-> "Spare", datatype |-> 12],
     [name |-> "Status", datatype |-> 11, booleanValue |-> TRUE] >>

PayloadMessages ==
  {EmptyDict}
    \cup {[timestamp |-> t] : t \in 1..MaxTs}
    \cup {[metrics |-> SampleMetrics]}
    \cup {[timestamp |-> t, metrics |-> SampleMetrics] : t \in 1..MaxTs}

\* payload bytes: a serialized Payload message, or bytes that are no message
SerializeToString(message) == [wire |-> "Payload", message |-> message]

Garbage == [wire |-> "garbage"]

Payloads == {Garbage} \cup {SerializeToString(m) : m \in PayloadMessages}

\* ------------------------------------------------------------ parse_payload
\* MessageToDict: 64-bit integers become decimal strings, other scalars keep
\* their Python type, fields that are not set produce no key.
MetricToDict(metric) ==
  [k \in DOMAIN metric |->
     IF k \in {"timestamp", "longValue"} THEN str_int(metric[k]) ELSE metric[k]]

MessageToDict(message) ==
  [k \in DOMAIN message |->
     IF k \in {"timestamp", "seq"} THEN str_int(message[k])
     ELSE IF k = "metrics"
          THEN [j \in 1..Len(message[k]) |-> MetricToDict(message[k][j])]
          ELSE message[k]]

\* a decoder that hands back what it had read when the bytes turned out bad
parse_payload_partial(payload) ==
  IF payload.wire = "Payload" THEN MessageToDict(payload.message) ELSE [seq |-> 0]

parse_payload(payload) ==
  IF payload.wire = "Payload" THEN MessageToDict(payload.message) ELSE PyNone

\* truth value of parse_payload's result in `if payload_dict:`
bool(v) == v # PyNone /\ DOMAIN v # {}

\* ---------------------------------------------------------------- database
\* A database: the two relations and sqlite_sequence (AUTOINCREMENT).
setup_database ==
  [devices |-> {}, metrics |-> {}, seq |-> [devices |-> 0, metrics |-> 0]]

NoConn == [closed |-> TRUE]

\* sqlite3.connect: a new connection starts from the committed file
connect(file) == file

\* What other connections can read after a statement was executed on a
\* connection inside its implicit transaction: still the committed file.
VisibleAutocommit(file, working) == working

VisibleAfterExecute(file, working) == file

\* What the file holds when store_data's exception handler has run: the open
\* transaction was never committed.
FileAfterException(file, working) == file

\* --------------------------------------------------------- store_data locals
part(topic_parts, k) == IF Len(topic_parts) > k THEN topic_parts[k + 1] ELSE None

group_id(m) == part(split(m.topic), 1)

message_type(m) == part(split(m.topic), 2)

node_id(m) == part(split(m.topic), 3)

device_id(m) == part(split(m.topic), 4)

\* a comparison that folds the case of the token
OnlineCaseInsensitive(mtype) ==
  IF mtype \in {"NDEATH", "DDEATH", "ndeath", "ddeath"} THEN 0 ELSE 1

online_of(mtype) == IF mtype \in {"NDEATH", "DDEATH"} THEN 0 ELSE 1

online(m) == online_of(message_type(m))

\* int(payload_dict.get('timestamp', int(time.time() * 1000)))
timestamp_of(payload_dict, arrival) ==
  IF "timestamp" \in DOMAIN payload_dict THEN int_str(payload_dict.timestamp)
  ELSE arrival

timestamp(m) == timestamp_of(parse_payload(m.payload), m.arrival)

entries_of(payload_dict) ==
  IF "metrics" \in DOMAIN payload_dict THEN payload_dict.metrics ELSE <<>>

entries(m) == entries_of(parse_payload(m.payload))

\* ------------------------------------------------------------- the upsert
Conflicting(rows, g, n, d) ==
  {r \in rows : SqlEq(r.group_id, g) /\ SqlEq(r.node_id, n) /\ SqlEq(r.device_id, d)}

\* INSERT ... ON CONFLICT(group_id, node_id, device_id) DO UPDATE SET
\* timestamp=?, online=?  The rowid is drawn from sqlite_sequence before the
\* uniqueness check, so the sequence advances on the update path as well.
UpsertArbitrated(w, g, n, d, ts, on) ==
  LET hit == Conflicting(w.devices, g, n, d)
      newid == w.seq.devices + 1
  IN IF hit = {}
     THEN [w EXCEPT !.devices = @ \cup {[id |-> newid, group_id |-> g, node_id |-> n,
                                         device_id |-> d, timestamp |-> ts, online |-> on]},
                    !.seq.devices = newid]
     ELSE [w EXCEPT !.devices = {IF r \in hit /\ ts > r.timestamp
                                   THEN [r EXCEPT !.timestamp = ts, !.online = on]
                                   ELSE r : r \in @},
                    !.seq.devices = newid]

\* an upsert of a node-level identity that also rewrites the online flag of
\* the device rows under that node
UpsertCascade(w, g, n, d, ts, on) ==
  LET hit == Conflicting(w.devices, g, n, d)
      newid == w.seq.devices + 1
      under(r) == d = None /\ r.group_id = g /\ r.node_id = n
      rows == {IF r \in hit THEN [r EXCEPT !.timestamp = ts, !.online = on]
               ELSE IF under(r) THEN [r EXCEPT !.online = on]
               ELSE r : r \in w.devices}
  IN IF hit = {}
     THEN [w EXCEPT !.devices = rows \cup {[id |-> newid, group_id |-> g, node_id |-> n,
                                            device_id |-> d, timestamp |-> ts, online |-> on]},
                    !.seq.devices = newid]
     ELSE [w EXCEPT !.devices = rows, !.seq.devices = newid]

Upsert(w, g, n, d, ts, on) ==
  LET hit == Conflicting(w.devices, g, n, d)
      newid == w.seq.devices + 1
  IN IF hit = {}
     THEN [w EXCEPT !.devices = @ \cup {[id |-> newid, group_id |-> g, node_id |-> n,
                                         device_id |-> d, timestamp |-> ts, online |-> on]},
                    !.seq.devices = newid]
     ELSE [w EXCEPT !.devices = {IF r \in hit
                                   THEN [r EXCEPT !.timestamp = ts, !.online = on]
                                   ELSE r : r \in @},
                    !.seq.devices = newid]

\* cursor.lastrowid on the fresh cursor: the new rowid when a row was
\* inserted, 0 when the statement took the update path
lastrowid(w, g, n, d) ==
  IF Conflicting(w.devices, g, n, d) = {} THEN w.seq.devices + 1 ELSE 0

\* SELECT id FROM devices WHERE group_id=? AND node_id=? AND device_id=?
SelectIds(rows, g, n, d) == {r.id : r \in Conflicting(rows, g, n, d)}

\* device_row_id; -1 stands for fetchone() returning no row (TypeError)
ResolveLastrowidOnly(last, rows, g, n, d) == last

Resolve(last, rows, g, n, d) ==
  IF last # 0 THEN last
  ELSE IF SelectIds(rows, g, n, d) = {} THEN -1
       ELSE CHOOSE x \in SelectIds(rows, g, n, d) : TRUE

\* ------------------------------------------------------------ metric append
\* a list of value fields that forgot the boolean one
ValTypesShort ==
  <<"intValue", "longValue", "floatValue", "doubleValue", "stringValue", "bytesValue">>

ValTypes ==
  <<"intValue", "longValue", "floatValue", "doubleValue",
    "booleanValue", "stringValue", "bytesValue">>

\* str(metric[val_type])
str_value(val_type, v) ==
  IF val_type = "intValue" THEN str_int(v)
  ELSE IF val_type = "booleanValue" THEN str_bool(v)
  ELSE v

value_of(metric) ==
  LET present == {k \in 1..Len(ValTypes) : ValTypes[k] \in DOMAIN metric}
  IN IF present = {} THEN None
     ELSE LET k == CHOOSE x \in present : \A y \in present : x <= y
          IN str_value(ValTypes[k], metric[ValTypes[k]])

get(dict, key, default) == IF key \in DOMAIN dict THEN dict[key] ELSE default

\* an append that replaces the rows of the same device and name (INSERT OR
\* REPLACE over a (device_id, name) key)
AppendMetricOverwrite(w, row_id, metric, ts) ==
  IF value_of(metric) = None THEN w
  ELSE LET newid == w.seq.metrics + 1
           name == get(metric, "name", "")
       IN [w EXCEPT !.metrics =
                      {r \in @ : ~(r.device_id = row_id /\ r.name = name)}
                        \cup {[id |-> newid, device_id |-> row_id, name |-> name,
                                timestamp |-> ts,
                                datatype |-> get(metric, "datatype", 0),
                                value |-> value_of(metric)]},
                    !.seq.metrics = newid]

AppendMetric(w, row_id, metric, ts) ==
  IF value_of(metric) = None THEN w
  ELSE LET newid == w.seq.metrics + 1
       IN [w EXCEPT !.metrics = @ \cup {[id |-> newid, device_id |-> row_id,
                                         name |-> get(metric, "name", ""),
                                         timestamp |-> ts,
                                         datatype |-> get(metric, "datatype", 0),
                                         value |-> value_of(metric)]},
                    !.seq.metrics = newid]

\* ------------------------------------------------------------------- state
VARIABLES
  db,             \* the committed database file: devices, metrics, seq
  conn,           \* store_data's open connection (its uncommitted view), or NoConn
  pc,             \* position of the consumer: idle, upsert, metrics, commit
  msg,            \* the message on_message was last called with
  device_row_id,  \* store_data's local
  i,              \* index of the next metric entry of the for loop
  outcome,        \* what became of msg: none, ignored, skipped, storing, stored,
                  \* error (a statement failed), locked (the database was locked)
  prev,           \* what became of the message before msg
  now,            \* the clock; one tick per delivered message
  leaked,         \* an unclosed connection still holds the write lock
  pre,            \* the database file when msg was delivered
  ret,            \* what store_data returned to on_message for msg
  viewer,         \* the reporting tool (src/db-viewer.py): position, output, exit status
  pub             \* the test publisher (src/mqtt-pub.py): payload being built, bytes, decoding

vars ==
  <<db, conn, pc, msg, device_row_id, i, outcome, prev, now, leaked, pre, ret, viewer, pub>>

\* the state of the two other programs, which the consumer never touches
tools == <<viewer, pub>>

\* store_data has not been called for msg
NotCalled == [NotCalled |-> TRUE]

\* store_data has no return statement: it returns None after the commit and
\* after its except clause alike
ReturnValue(succeeded) == PyNone

devices == db.devices

metrics == db.metrics

NoMsg == [topic |-> <<>>, payload |-> Garbage, arrival |-> 0]

\* the reporting tool and the publisher before they are started
ViewerOff == [pc |-> "off"]

PubOff == [pc |-> "off"]

Init ==
  /\ viewer = ViewerOff
  /\ pub = PubOff
  /\ db = setup_database
  /\ conn = NoConn
  /\ pc = "idle"
  /\ msg = NoMsg
  /\ device_row_id = 0
  /\ i = 1
  /\ outcome = "none"
  /\ prev = "none"
  /\ now = 1
  /\ leaked = FALSE
  /\ pre = setup_database
  /\ ret = NotCalled

\* `topic_parts[0] != "spBv1.0"` negated: the message is a Sparkplug B one
IsSparkplugUnchecked(topic_parts) == TRUE

is_sparkplug(topic_parts) == topic_parts[1] = "spBv1.0"

\* on_message up to the call of store_data (which opens its connection)
on_message(topic, payload) ==
  /\ pc = "idle"
  /\ now <= MaxMsgs
  /\ msg' = [topic |-> topic, payload |-> payload, arrival |-> now]
  /\ now' = now + 1
  /\ pre' = db
  /\ prev' = outcome
  /\ device_row_id' = 0
  /\ i' = 1
  /\ ret' = NotCalled
  /\ IF ~is_sparkplug(split(topic))
     THEN /\ outcome' = "ignored"
          /\ UNCHANGED <<pc, conn>>
     ELSE IF ~bool(parse_payload(payload))
     THEN /\ outcome' = "skipped"
          /\ UNCHANGED <<pc, conn>>
     ELSE /\ outcome' = "storing"
          /\ pc' = "upsert"
          /\ conn' = connect(db)
  /\ UNCHANGED <<db, leaked>>
  /\ UNCHANGED tools

\* the except clause of store_data: nothing is committed, the connection is
\* not closed; it keeps the write lock when a statement had already written
Raise(what, holdsLock) ==
  /\ db' = FileAfterException(db, conn)
  /\ conn' = NoConn
  /\ pc' = "idle"
  /\ outcome' = what
  /\ leaked' = (leaked \/ holdsLock)
  /\ ret' = ReturnValue(FALSE)
  /\ UNCHANGED <<msg, device_row_id, i, prev, now, pre>>
  /\ UNCHANGED tools

\* the INSERT ... ON CONFLICT statement and the resolution of device_row_id
store_data_upsert ==
  /\ pc = "upsert"
  /\ IF leaked
     THEN Raise("locked", FALSE)      \* OperationalError: database is locked
     ELSE LET g == group_id(msg)
              n == node_id(msg)
              d == device_id(msg)
              w == Upsert(conn, g, n, d, timestamp(msg), online(msg))
              rid == Resolve(lastrowid(conn, g, n, d), w.devices, g, n, d)
          IN IF rid = -1
             THEN Raise("error", TRUE)    \* fetchone() returned None
             ELSE /\ conn' = w
                  /\ device_row_id' = rid
                  /\ db' = VisibleAfterExecute(db, w)
                  /\ pc' = IF Len(entries(msg)) >= 1 THEN "metrics" ELSE "commit"
                  /\ UNCHANGED <<msg, i, outcome, prev, now, leaked, pre, ret>>
                  /\ UNCHANGED tools

\* one iteration of `for metric in payload_dict['metrics']`
store_data_metric ==
  /\ pc = "metrics"
  /\ LET w == AppendMetric(conn, device_row_id, entries(msg)[i], timestamp(msg))
     IN /\ conn' = w
        /\ db' = VisibleAfterExecute(db, w)
  /\ i' = i + 1
  /\ pc' = IF i = Len(entries(msg)) THEN "commit" ELSE "metrics"
  /\ UNCHANGED <<msg, device_row_id, outcome, prev, now, leaked, pre, ret>>
  /\ UNCHANGED tools

\* conn.commit(); conn.close()
store_data_commit ==
  /\ pc = "commit"
  /\ db' = conn
  /\ conn' = NoConn
  /\ pc' = "idle"
  /\ outcome' = "stored"
  /\ ret' = ReturnValue(TRUE)
  /\ UNCHANGED <<msg, device_row_id, i, prev, now, leaked, pre>>
  /\ UNCHANGED tools

\* a statement or the commit fails (I/O error, busy database, full disk)
storage_error ==
  /\ pc \in {"upsert", "metrics", "commit"}
  /\ Raise("error", pc # "upsert")

\* the runtime finalizes the unclosed connection: rollback, lock released
finalize_connection ==
  /\ leaked
  /\ leaked' = FALSE
  /\ UNCHANGED <<db, conn, pc, msg, device_row_id, i, outcome, prev, now, pre, ret>>
  /\ UNCHANGED tools

Next ==
  \/ \E topic \in Topics, payload \in Payloads : on_message(topic, payload)
  \/ store_data_upsert
  \/ store_data_metric
  \/ store_data_commit
  \/ storage_error
  \/ finalize_connection

Spec == Init /\ [][Next]_vars

\* ------------------------------------------------ the reporting tool: queries
MaxRows == 6        \* metric rows of one name in a sample database

\* BINARY collation of the text values that occur; NULL sorts first
Collation ==
  <<None, "", "Device01", "Device02", "Group01", "Humidity", "Node01",
    "Spare", "Status", "Temperature">>

Rank(text) == CHOOSE k \in 1..Len(Collation) : Collation[k] = text

\* ORDER BY group_id, node_id, device_id
DeviceBefore(a, b) ==
  \/ Rank(a.group_id) < Rank(b.group_id)
  \/ /\ a.group_id = b.group_id
     /\ \/ Rank(a.node_id) < Rank(b.node_id)
        \/ /\ a.node_id = b.node_id
           /\ \/ Rank(a.device_id) < Rank(b.device_id)
              \/ a.device_id = b.device_id /\ a.id < b.id

\* ORDER BY m.timestamp DESC
LatestBefore(a, b) ==
  \/ a.timestamp > b.timestamp
  \/ a.timestamp = b.timestamp /\ a.id < b.id

\* ORDER BY name, timestamp DESC
NameTimeBefore(a, b) ==
  \/ Rank(a.name) < Rank(b.name)
  \/ a.name = b.name /\ LatestBefore(a, b)

RECURSIVE OrderDevices(_)
OrderDevices(rows) ==
  IF rows = {} THEN <<>>
  ELSE LET first == CHOOSE r \in rows : \A o \in rows \ {r} : DeviceBefore(r, o)
       IN <<first>> \o OrderDevices(rows \ {first})

RECURSIVE OrderLatest(_)
OrderLatest(rows) ==
  IF rows = {} THEN <<>>
  ELSE LET first == CHOOSE r \in rows : \A o \in rows \ {r} : LatestBefore(r, o)
       IN <<first>> \o OrderLatest(rows \ {first})

RECURSIVE OrderNameTime(_)
OrderNameTime(rows) ==
  IF rows = {} THEN <<>>
  ELSE LET first == CHOOSE r \in rows : \A o \in rows \ {r} : NameTimeBefore(r, o)
       IN <<first>> \o OrderNameTime(rows \ {first})

\* rows[:n] of a Python list, LIMIT n of a query (n >= 0)
Take(rows, n) == SubSeq(rows, 1, IF Len(rows) < n THEN Len(rows) ELSE n)

\* SELECT ... FROM metrics m JOIN devices d ON m.device_id = d.id
\* [WHERE d.id = ?] ORDER BY m.timestamp DESC LIMIT ?
SelectLatest(file, device, limit) ==
  LET joined == {[m |-> m, d |-> d] : m \in file.metrics, d \in file.devices}
      kept == {j \in joined :
                 /\ j.m.device_id = j.d.id
                 /\ (device # 0 => j.d.id = device)}
      ordered == OrderLatest({j.m : j \in kept})
  IN Take([k \in 1..Len(ordered) |->
             [group_id |-> (CHOOSE d \in file.devices : d.id = ordered[k].device_id).group_id,
              node_id |-> (CHOOSE d \in file.devices : d.id = ordered[k].device_id).node_id,
              device_id |-> (CHOOSE d \in file.devices : d.id = ordered[k].device_id).device_id,
              name |-> ordered[k].name,
              datatype |-> ordered[k].datatype,
              value |-> ordered[k].value,
              timestamp |-> ordered[k].timestamp]], limit)

\* SELECT name, datatype, value, timestamp FROM metrics WHERE device_id = ?
\* ORDER BY name, timestamp DESC
SelectDeviceMetrics(file, device) ==
  OrderNameTime({m \in file.metrics : m.device_id = device})

\* metric_groups: the names in order of first appearance, and the rows of each
GroupNames(rows) ==
  LET firsts == {k \in 1..Len(rows) : \A j \in 1..(k - 1) : rows[j].name # rows[k].name}
      nth(n) == CHOOSE k \in firsts : Cardinality({x \in firsts : x <= k}) = n
  IN [n \in 1..Cardinality(firsts) |-> rows[nth(n)].name]

RECURSIVE Filter(_, _)
Filter(rows, name) ==
  IF rows = <<>> THEN <<>>
  ELSE IF Head(rows).name = name THEN <<Head(rows)>> \o Filter(Tail(rows), name)
       ELSE Filter(Tail(rows), name)

\* ----------------------------------------------- the reporting tool: rendering
\* datatype_names of print_latest_metrics
datatype_names_latest ==
  <<"Int8", "Int16", "Int32", "Int64", "UInt8", "UInt16", "UInt32", "UInt64",
    "Float", "Double", "Boolean", "String", "DateTime", "Text">>

\* a copy of the table that drifted from the other one
DatatypeNamesDrifted ==
  <<"Int8", "Int16", "Int32", "Int64", "UInt8", "UInt16", "UInt32", "UInt64",
    "Float", "Double", "Bool", "String", "DateTime">>

\* datatype_names of print_device_metrics
datatype_names_device ==
  <<"Int8", "Int16", "Int32", "Int64", "UInt8", "UInt16", "UInt32", "UInt64",
    "Float", "Double", "Boolean", "String", "DateTime", "Text">>

\* datetime.fromtimestamp(timestamp/1000).strftime('%Y-%m-%d %H:%M:%S'): the
\* second the millisecond timestamp falls in
timestamp_str(ts) == ts \div 1000

\* the f-string format spec '<10' raises TypeError on None
Formattable(text) == text # None

\* values[:4]: the slice bound mistaken
ShownFour(values) == Take(values, 4)

\* values[:5]
Shown(values) == Take(values, 5)

\* `if len(values) > 5`: the number printed in "... and N more values", 0 for
\* no such line
Remaining(values) == IF Len(values) > 5 THEN Len(values) - 5 ELSE 0

\* ------------------------------------------------ the reporting tool: reports
\* the line of an except clause: "Error querying ...: {e}"
ErrorLine(what) == [kind |-> "error", what |-> what]

\* the number of leading rows every text column of which can be formatted
RECURSIVE Printable(_, _)
Printable(rows, columns) ==
  IF rows = <<>> THEN 0
  ELSE IF \A c \in columns : Formattable(Head(rows)[c])
       THEN 1 + Printable(Tail(rows), columns)
       ELSE 0

\* `device_id_str or 'N/A'`
or_na(text) == IF text = None \/ text = "" THEN "N/A" ELSE text

\* print_devices: the lines printed; storage is "ok" or the reason why the
\* database cannot be opened or read
print_devices(file, storage) ==
  IF storage # "ok" THEN <<ErrorLine("devices")>>
  ELSE LET rows == OrderDevices(file.devices)
           n == Printable(rows, {"group_id", "node_id"})
       IN IF rows = <<>> THEN <<[kind |-> "empty", what |-> "devices"]>>
          ELSE <<[kind |-> "header", what |-> "devices"]>>
                 \o [k \in 1..n |->
                       [kind |-> "device", id |-> rows[k].id,
                        group_id |-> rows[k].group_id, node_id |-> rows[k].node_id,
                        device_id |-> or_na(rows[k].device_id),
                        timestamp |-> timestamp_str(rows[k].timestamp),
                        status |-> IF rows[k].online # 0 THEN "ONLINE" ELSE "OFFLINE"]]
                 \o (IF n < Len(rows) THEN <<ErrorLine("devices")>> ELSE <<>>)

\* print_latest_metrics(device_id, limit); device 0 stands for no device_id
print_latest_metrics(file, storage, device, limit) ==
  IF storage # "ok" THEN <<ErrorLine("metrics")>>
  ELSE LET rows == SelectLatest(file, device, limit)
           n == Printable(rows, {"group_id", "node_id"})
       IN IF rows = <<>> THEN <<[kind |-> "empty", what |-> "metrics"]>>
          ELSE <<[kind |-> "header", what |-> "metrics"]>>
                 \o [k \in 1..n |->
                       [kind |-> "metric",
                        group_id |-> rows[k].group_id, node_id |-> rows[k].node_id,
                        device_id |-> or_na(rows[k].device_id),
                        name |-> rows[k].name,
                        datatype |-> get(datatype_names_latest, rows[k].datatype,
                                         str_int(rows[k].datatype)),
                        value |-> rows[k].value,
                        timestamp |-> timestamp_str(rows[k].timestamp)]]
                 \o (IF n < Len(rows) THEN <<ErrorLine("metrics")>> ELSE <<>>)

\* the lines print_device_metrics prints for the groups, name after name
RECURSIVE GroupLines(_, _)
GroupLines(names, rows) ==
  IF names = <<>> THEN <<>>
  ELSE LET values == Filter(rows, Head(names))
           shown == Shown(values)
       IN <<[kind |-> "group", name |-> Head(names)]>>
            \o [k \in 1..Len(shown) |->
                  [kind |-> "value",
                   datatype |-> get(datatype_names_device, shown[k].datatype,
                                    str_int(shown[k].datatype)),
                   value |-> shown[k].value,
                   timestamp |-> timestamp_str(shown[k].timestamp)]]
            \o (IF Remaining(values) > 0
                THEN <<[kind |-> "more", name |-> Head(names), count |-> Remaining(values)]>>
                ELSE <<>>)
            \o GroupLines(Tail(names), rows)

\* print_device_metrics(device_id)
print_device_metrics(file, storage, device) ==
  IF storage # "ok" THEN <<ErrorLine("device metrics")>>
  ELSE IF \A d \in file.devices : d.id # device
  THEN <<[kind |-> "empty", what |-> "device"]>>
  ELSE LET rows == SelectDeviceMetrics(file, device)
       IN <<[kind |-> "header", what |-> "device metrics"]>>
            \o (IF rows = <<>> THEN <<[kind |-> "empty", what |-> "device metrics"]>>
                ELSE GroupLines(GroupNames(rows), rows))

\* --------------------------------------------- the reporting tool: the process
\* args.device when --device is not given
NoArg == -1

\* the exit status while the process runs
Running == -1

\* the process returns from main: exit status 0
ExitStatus(reports) == 0

Arguments ==
  [devices : BOOLEAN, metrics : BOOLEAN, device : {NoArg, 1, 3}, limit : {1, 10}]

\* main, up to the first report: parse_args and the default of "show all"
viewer_main(args, storage) ==
  /\ viewer = ViewerOff
  /\ viewer' =
       [pc |-> "devices",
        args |-> IF ~(args.devices \/ args.metrics \/ args.device # NoArg)
                 THEN [args EXCEPT !.devices = TRUE, !.metrics = TRUE]
                 ELSE args,
        storage |-> storage,
        devices_report |-> <<>>, latest_report |-> <<>>, device_report |-> <<>>,
        status |-> Running]
  /\ UNCHANGED <<db, conn, pc, msg, device_row_id, i, outcome, prev, now, leaked, pre,
                 ret, pub>>

\* `if args.devices: print_devices()`
viewer_devices ==
  /\ viewer.pc = "devices"
  /\ viewer' = [viewer EXCEPT
                  !.pc = "metrics",
                  !.devices_report = IF viewer.args.devices
                                     THEN print_devices(db, viewer.storage) ELSE @]
  /\ UNCHANGED <<db, conn, pc, msg, device_row_id, i, outcome, prev, now, leaked, pre,
                 ret, pub>>

\* `if args.metrics: print_latest_metrics(limit=args.limit)`
viewer_metrics ==
  /\ viewer.pc = "metrics"
  /\ viewer' = [viewer EXCEPT
                  !.pc = "device",
                  !.latest_report =
                     IF viewer.args.metrics
                     THEN print_latest_metrics(db, viewer.storage, 0, viewer.args.limit)
                     ELSE @]
  /\ UNCHANGED <<db, conn, pc, msg, device_row_id, i, outcome, prev, now, leaked, pre,
                 ret, pub>>

\* `if args.device is not None: print_device_metrics(args.device)`
viewer_device ==
  /\ viewer.pc = "device"
  /\ viewer' = [viewer EXCEPT
                  !.pc = "exit",
                  !.device_report =
                     IF viewer.args.device # NoArg
                     THEN print_device_metrics(db, viewer.storage, viewer.args.device)
                     ELSE @]
  /\ UNCHANGED <<db, conn, pc, msg, device_row_id, i, outcome, prev, now, leaked, pre,
                 ret, pub>>

\* main returns
viewer_exit ==
  /\ viewer.pc = "exit"
  /\ viewer' = [viewer EXCEPT
                  !.pc = "done",
                  !.status = ExitStatus(<<viewer.devices_report, viewer.latest_report,
                                         viewer.device_report>>)]
  /\ UNCHANGED <<db, conn, pc, msg, device_row_id, i, outcome, prev, now, leaked, pre,
                 ret, pub>>

\* databases the consumer can have left behind: two devices, k Temperature
\* rows of one datatype tag on device 1 with timestamps rising, falling or
\* equal (in whole seconds), and optionally a Status row on device 1 and a Humidity row on the
\* node-level device 2
SampleTs(pattern, k, n) ==
  1000 * (IF pattern = "rising" THEN n ELSE IF pattern = "falling" THEN k + 1 - n ELSE 1)

SampleDatabase(k, pattern, tag, extra) ==
  [devices |->
     {[id |-> 1, group_id |-> "Group01", node_id |-> "Node01", device_id |-> "Device01",
       timestamp |-> 2, online |-> 1],
      [id |-> 2, group_id |-> "Group01", node_id |-> "Node01", device_id |-> None,
       timestamp |-> 1, online |-> 0]},
   metrics |->
     {[id |-> n, device_id |-> 1, name |-> "Temperature",
       timestamp |-> SampleTs(pattern, k, n), datatype |-> tag, value |-> str_int(n)]
        : n \in 1..k}
       \cup (IF extra
             THEN {[id |-> k + 1, device_id |-> 1, name |-> "Status", timestamp |-> 3000,
                    datatype |-> 11, value |-> "True"],
                   [id |-> k + 2, device_id |-> 2, name |-> "Humidity", timestamp |-> 2000,
                    datatype |-> 9, value |-> "45.0"]}
             ELSE {}),
   seq |-> [devices |-> 2, metrics |-> IF extra THEN k + 2 ELSE k]]

DatatypeTags == 0..15

SampleDatabases ==
  {setup_database}
    \cup {SampleDatabase(k, pattern, tag, extra) :
            k \in 0..MaxRows, pattern \in {"rising", "falling", "equal"},
            tag \in DatatypeTags, extra \in BOOLEAN}

ViewerInit ==
  /\ viewer = ViewerOff
  /\ pub = PubOff
  /\ db \in SampleDatabases
  /\ conn = NoConn
  /\ pc = "idle"
  /\ msg = NoMsg
  /\ device_row_id = 0
  /\ i = 1
  /\ outcome = "none"
  /\ prev = "none"
  /\ now = 1
  /\ leaked = FALSE
  /\ pre = setup_database
  /\ ret = NotCalled

ViewerNext ==
  \/ \E args \in Arguments, storage \in {"ok", "unreadable"} : viewer_main(args, storage)
  \/ viewer_devices
  \/ viewer_metrics
  \/ viewer_device
  \/ viewer_exit

ViewerSpec == ViewerInit /\ [][ViewerNext]_vars

\* ------------------------------------------------- the publisher: envelopes
MaxMetrics == 2

\* the datatypes add_metric is called with: the enumeration 1..14 and one tag
\* for which add_metric has no branch (DataSet)
Datatypes == 1..14 \cup {16}

\* sparkplug_b_pb2.Payload() with timestamp and seq set
create_payload(clock) == [timestamp |-> clock, seq |-> 0]

\* the keyword arguments a caller passes for a datatype: none, or the value
KwargsFor(datatype) ==
  {EmptyDict}
    \cup (IF datatype \in {1, 2, 3, 5, 6, 7} THEN {[int_value |-> 5]}
          ELSE IF datatype \in {4, 8, 13} THEN {[long_value |-> 7]}
          ELSE IF datatype = 9 THEN {[float_value |-> "22.5"]}
          ELSE IF datatype = 10 THEN {[double_value |-> "45.0"]}
          ELSE IF datatype = 11 THEN {[boolean_value |-> TRUE]}
          ELSE IF datatype \in {12, 14} THEN {[string_value |-> "on"]}
          ELSE {})

\* add_metric(payload, name, datatype, **kwargs) at time clock: the payload
\* with the entry appended
add_metric(payload, name, datatype, kwargs, clock) ==
  LET base == [name |-> name, timestamp |-> clock, datatype |-> datatype]
      metric ==
        IF datatype \in {1, 2, 3, 5, 6, 7}
        THEN base @@ [intValue |-> get(kwargs, "int_value", 0)]
        ELSE IF datatype \in {4, 8}
        THEN base @@ [longValue |-> get(kwargs, "long_value", 0)]
        ELSE IF datatype = 9
        THEN base @@ [floatValue |-> get(kwargs, "float_value", "0.0")]
        ELSE IF datatype = 10
        THEN base @@ [doubleValue |-> get(kwargs, "double_value", "0.0")]
        ELSE IF datatype = 11
        THEN base @@ [booleanValue |-> get(kwargs, "boolean_value", FALSE)]
        ELSE IF datatype \in {12, 14}
        THEN base @@ [stringValue |-> get(kwargs, "string_value", "")]
        ELSE IF datatype = 13
        THEN base @@ [longValue |-> get(kwargs, "long_value", clock)]
        ELSE base
  IN [k \in DOMAIN payload \cup {"metrics"} |->
        IF k = "metrics" THEN Append(get(payload, "metrics", <<>>), metric)
        ELSE payload[k]]

\* the Python type of a field of a Payload message or of one of its metrics
NativeType(field) ==
  IF field \in {"timestamp", "seq", "datatype", "intValue", "longValue"} THEN "int"
  ELSE IF field \in {"floatValue", "doubleValue"} THEN "float"
  ELSE IF field = "booleanValue" THEN "bool"
  ELSE "str"

\* the Python type of the same field in the dict MessageToDict returns
DictType(field) ==
  IF field \in {"timestamp", "seq", "longValue"} THEN "str" ELSE NativeType(field)

create_envelope(clock) ==
  /\ pub = PubOff
  /\ pub' = [pc |-> "building", payload |-> create_payload(clock)]
  /\ UNCHANGED <<db, conn, pc, msg, device_row_id, i, outcome, prev, now, leaked, pre,
                 ret, viewer>>

extend_envelope(datatype, kwargs, clock) ==
  /\ pub.pc = "building"
  /\ Len(get(pub.payload, "metrics", <<>>)) < MaxMetrics
  /\ pub' = [pub EXCEPT
               !.payload = add_metric(@, "Temperature", datatype, kwargs, clock)]
  /\ UNCHANGED <<db, conn, pc, msg, device_row_id, i, outcome, prev, now, leaked, pre,
                 ret, viewer>>

\* `return payload.SerializeToString()`
serialize_envelope ==
  /\ pub.pc = "building"
  /\ pub' = [pc |-> "sent", payload |-> pub.payload,
             wire |-> SerializeToString(pub.payload)]
  /\ UNCHANGED <<db, conn, pc, msg, device_row_id, i, outcome, prev, now, leaked, pre,
                 ret, viewer>>

\* the consumer's `payload_dict = parse_payload(msg.payload)`
decode_envelope ==
  /\ pub.pc = "sent"
  /\ pub' = [pc |-> "decoded", payload |-> pub.payload, wire |-> pub.wire,
             payload_dict |-> parse_payload(pub.wire)]
  /\ UNCHANGED <<db, conn, pc, msg, device_row_id, i, outcome, prev, now, leaked, pre,
                 ret, viewer>>

CodecInit ==
  /\ pub = PubOff
  /\ viewer = ViewerOff
  /\ db = setup_database
  /\ conn = NoConn
  /\ pc = "idle"
  /\ msg = NoMsg
  /\ device_row_id = 0
  /\ i = 1
  /\ outcome = "none"
  /\ prev = "none"
  /\ now = 1
  /\ leaked = FALSE
  /\ pre = setup_database
  /\ ret = NotCalled

CodecNext ==
  \/ \E clock \in 1..MaxTs : create_envelope(clock)
  \/ \E datatype \in Datatypes, clock \in 1..MaxTs :
       \E kwargs \in KwargsFor(datatype) : extend_envelope(datatype, kwargs, clock)
  \/ serialize_envelope
  \/ decode_envelope

CodecSpec == CodecInit /\ [][CodecNext]_vars

\* ---------------------------------------------- the publisher: the two threads
\* the number of DDATA messages main publishes (100 in the program)
MaxData == 3

\* client.publish(topic, payload, qos, retain) as the client records it
Publish(segments, qos, retain) ==
  [topic |-> Join(segments), qos |-> qos, retain |-> retain]

\* main up to client.connect(...) returning: the socket is open, no thread
\* runs the network loop yet
publisher_connect ==
  /\ pub = PubOff
  /\ pub' = [main |-> "connected", loop |-> "stopped", count |-> 0, published |-> <<>>]
  /\ UNCHANGED <<db, conn, pc, msg, device_row_id, i, outcome, prev, now, leaked, pre,
                 ret, viewer>>

\* client.connect raises: `except Exception`, then the finally block
publisher_connect_fails ==
  /\ pub = PubOff
  /\ pub' = [main |-> "finally", loop |-> "stopped", count |-> 0, published |-> <<>>]
  /\ UNCHANGED <<db, conn, pc, msg, device_row_id, i, outcome, prev, now, leaked, pre,
                 ret, viewer>>

\* client.loop_start(): the network-loop thread starts, main goes on
loop_start ==
  /\ pub # PubOff
  /\ pub.main = "connected"
  /\ pub' = [pub EXCEPT !.main = "loop", !.loop = "running"]
  /\ UNCHANGED <<db, conn, pc, msg, device_row_id, i, outcome, prev, now, leaked, pre,
                 ret, viewer>>

\* one turn of `while count < 100`
publish_ddata ==
  /\ pub # PubOff
  /\ pub.main = "loop"
  /\ pub.count < MaxData
  /\ pub' = [pub EXCEPT
               !.published =
                  Append(@, Publish(<<"spBv1.0", GROUP_ID, "DDATA", EDGE_NODE_ID,
                                      DEVICE_ID>>, 0, FALSE)),
               !.count = @ + 1]
  /\ UNCHANGED <<db, conn, pc, msg, device_row_id, i, outcome, prev, now, leaked, pre,
                 ret, viewer>>

\* after the loop: the node death message
publish_ndeath ==
  /\ pub # PubOff
  /\ pub.main = "loop"
  /\ pub.count = MaxData
  /\ pub' = [pub EXCEPT
               !.published =
                  Append(@, Publish(<<"spBv1.0", GROUP_ID, "NDEATH", EDGE_NODE_ID>>,
                                    1, TRUE)),
               !.main = "finally"]
  /\ UNCHANGED <<db, conn, pc, msg, device_row_id, i, outcome, prev, now, leaked, pre,
                 ret, viewer>>

\* KeyboardInterrupt in the try block
publisher_interrupt ==
  /\ pub # PubOff
  /\ pub.main \in {"connected", "loop"}
  /\ pub' = [pub EXCEPT !.main = "finally"]
  /\ UNCHANGED <<db, conn, pc, msg, device_row_id, i, outcome, prev, now, leaked, pre,
                 ret, viewer>>

\* the network-loop thread reads the connection acknowledgement and calls
\* on_connect, which publishes NBIRTH ...
on_connect_nbirth ==
  /\ pub # PubOff
  /\ pub.loop = "running"
  /\ pub' = [pub EXCEPT
               !.published =
                  Append(@, Publish(<<"spBv1.0", GROUP_ID, "NBIRTH", EDGE_NODE_ID>>,
                                    1, TRUE)),
               !.loop = "on_connect"]
  /\ UNCHANGED <<db, conn, pc, msg, device_row_id, i, outcome, prev, now, leaked, pre,
                 ret, viewer>>

\* ... and then DBIRTH
on_connect_dbirth ==
  /\ pub # PubOff
  /\ pub.loop = "on_connect"
  /\ pub' = [pub EXCEPT
               !.published =
                  Append(@, Publish(<<"spBv1.0", GROUP_ID, "DBIRTH", EDGE_NODE_ID,
                                      DEVICE_ID>>, 1, TRUE)),
               !.loop = "connected"]
  /\ UNCHANGED <<db, conn, pc, msg, device_row_id, i, outcome, prev, now, leaked, pre,
                 ret, viewer>>

\* finally: client.loop_stop() joins the network-loop thread (a callback in
\* progress runs to its end first), client.disconnect()
publisher_finally ==
  /\ pub # PubOff
  /\ pub.main = "finally"
  /\ pub.loop # "on_connect"
  /\ pub' = [pub EXCEPT !.main = "done", !.loop = "stopped"]
  /\ UNCHANGED <<db, conn, pc, msg, device_row_id, i, outcome, prev, now, leaked, pre,
                 ret, viewer>>

PublisherNext ==
  \/ publisher_connect
  \/ publisher_connect_fails
  \/ loop_start
  \/ publish_ddata
  \/ publish_ndeath
  \/ publisher_interrupt
  \/ on_connect_nbirth
  \/ on_connect_dbirth
  \/ publisher_finally

PublisherSpec == CodecInit /\ [][PublisherNext]_vars

\* ------------------------------------------------------- shared vocabulary
Ident(r) == <<r.group_id, r.node_id, r.device_id>>

ident(m) == <<group_id(m), node_id(m), device_id(m)>>

InNamespace(m) == split(m.topic)[1] = "spBv1.0"

\* a topic that names a node: namespace, group, kind, node and maybe a device
WellFormed(m) == InNamespace(m) /\ Len(split(m.topic)) >= 4

Handled == pc = "idle" /\ outcome # "none"

Stored == pc = "idle" /\ outcome = "stored"

\* the connection's view while store_data runs, the file otherwise
Working == IF conn = NoConn THEN db ELSE conn

\* indices of the metric entries that carry a value field, and the k-th of them
Valued(m) == {j \in 1..Len(entries(m)) : value_of(entries(m)[j]) # None}

ValuedIndex(m, k) ==
  CHOOSE j \in Valued(m) : Cardinality({x \in Valued(m) : x <= j}) = k

\* the device row store_data wrote for msg
WrittenRow(r) ==
  /\ r.id = device_row_id
  /\ Ident(r) = ident(msg)
  /\ r.online = online(msg)
  /\ r.timestamp = timestamp(msg)

\* ------------------------------------------------------------------ claims
\* C1: the devices relation holds at most one row per identity tuple
\* (group_id, node_id, device_id), node-level identities (device_id absent)
\* included.  Stated for the identities that name a node.
C1_OneRowPerIdentity ==
  \A r1, r2 \in devices :
    (r1.node_id # None /\ Ident(r1) = Ident(r2)) => r1 = r2

\* C2: an in-namespace NDEATH or DDEATH message whose payload decodes, the
\* empty payload included, results in a device upsert with online = false
\* for the topic's identity.
C2_DeathWritesOffline ==
  (/\ Handled
   /\ outcome \notin {"error", "locked"}
   /\ InNamespace(msg)
   /\ message_type(msg) \in {"NDEATH", "DDEATH"}
   /\ msg.payload # Garbage)
  => /\ outcome = "stored"
     /\ \E r \in devices : Ident(r) = ident(msg) /\ r.online = 0

\* C3: a topic with fewer than 4 segments is rejected and produces no
\* storage mutation.
C3_TruncatedTopicRejected ==
  (Handled /\ Len(split(msg.topic)) < 4)
  => /\ outcome # "stored"
     /\ devices = pre.devices
     /\ metrics = pre.metrics

\* C4: every metric row appended for a message carries the metric entry's
\* own timestamp when the entry has one, else the effective timestamp.
C4_MetricOwnTimestamp ==
  Stored =>
    \A r \in metrics \ pre.metrics :
      LET entry == entries(msg)[ValuedIndex(msg, r.id - pre.seq.metrics)]
      IN r.timestamp = IF "timestamp" \in DOMAIN entry
                       THEN int_str(entry.timestamp)
                       ELSE timestamp(msg)

\* C5: the device upsert and the metric appends of one message become
\* visible together at commit; while store_data runs, and after a failure
\* before commit, the file is what it was when the message arrived.
C5_Atomic ==
  /\ pc # "idle" => db = pre
  /\ (pc = "idle" /\ outcome \in {"error", "locked"}) => db = pre
  /\ Stored =>
       /\ \E r \in devices : WrittenRow(r)
       /\ Cardinality(metrics \ pre.metrics) = Cardinality(Valued(msg))

C5_Witness ==
  /\ pc = "idle"
  /\ outcome = "error"
  /\ device_row_id # 0
  /\ i > 1
  /\ Cardinality(Valued(msg)) > 1
  /\ db = pre

\* C6: every metric row references an existing device row, the row whose
\* identity tuple is that of the topic of the message that appended it, on
\* the insert path and on the update path; no metric is appended before the
\* upsert.
C6_MetricReferencesItsDevice ==
  /\ \A m \in metrics : \E d \in devices : d.id = m.device_id
  /\ \A m \in Working.metrics : \E d \in Working.devices : d.id = m.device_id
  /\ outcome \in {"storing", "stored"} =>
       \A m \in Working.metrics \ pre.metrics :
         \E d \in Working.devices : d.id = m.device_id /\ Ident(d) = ident(msg)
  /\ pc = "upsert" => conn.metrics = pre.metrics

C6_Witness ==
  /\ Stored
  /\ metrics # pre.metrics
  /\ \E d \in pre.devices : d.id = device_row_id
  /\ \E d \in devices \ pre.devices : TRUE

\* C7: after a stored message, the online flag and last-seen kept for its
\* identity are those of that message, the most recently processed one for
\* the identity, whatever its timestamp.  Stated for well-formed topics.
C7_LastWriteWins ==
  (Stored /\ WellFormed(msg)) =>
    \A r \in devices :
      Ident(r) = ident(msg) => r.online = online(msg) /\ r.timestamp = timestamp(msg)

\* C8 as stated: a message whose timestamp is the same as or older than the
\* stored one leaves the stored online flag as it was.
C8_OlderDoesNotRegress ==
  Stored =>
    \A r0 \in pre.devices :
      (Ident(r0) = ident(msg) /\ timestamp(msg) <= r0.timestamp)
      => \E r \in devices : r.id = r0.id /\ r.online = r0.online

\* C8 amended: a message whose timestamp is the same as or older than the
\* one stored for its identity is applied without arbitration; the device
\* row store_data writes carries that message's online flag and last-seen.
C8_OlderOverwrites ==
  (/\ Stored
   /\ \E r0 \in pre.devices :
        Ident(r0) = ident(msg) /\ timestamp(msg) <= r0.timestamp)
  => \E r \in devices : WrittenRow(r)

C8_Witness ==
  /\ Stored
  /\ \E r0 \in pre.devices :
       /\ r0.id = device_row_id
       /\ Ident(r0) = ident(msg)
       /\ timestamp(msg) < r0.timestamp
       /\ r0.online # online(msg)

\* C9: payload bytes that cannot be decoded produce no mutation; devices and
\* metrics are what they were, the row of the topic's identity included.
C9_UndecodableChangesNothing ==
  (outcome # "none" /\ msg.payload = Garbage)
  => /\ pc = "idle"
     /\ outcome \in {"ignored", "skipped"}
     /\ devices = pre.devices
     /\ metrics = pre.metrics

C9_Witness ==
  /\ outcome = "skipped"
  /\ msg.payload = Garbage
  /\ \E r \in devices : Ident(r) = ident(msg)

\* C10: after a message that failed (parse, decode or storage error) the
\* next delivered valid message is stored as if the failed one had not been
\* delivered, unless one of its own statements fails.
C10_NextMessageStored ==
  (/\ Handled
   /\ prev \in {"ignored", "skipped", "error", "locked"}
   /\ WellFormed(msg)
   /\ bool(parse_payload(msg.payload))
   /\ outcome # "error")
  => /\ outcome = "stored"
     /\ \E r \in devices : WrittenRow(r)

\* C11: a storage failure is surfaced to the caller: what store_data returns
\* to on_message for a failed apply differs from what it returns for a
\* successful one.
C11_FailureDistinguishable ==
  (Handled /\ outcome \in {"error", "locked"}) => ret # ReturnValue(TRUE)

\* C12: for a stored message the number of metric rows appended equals the
\* number of decoded entries that carry a value field; entries without one
\* append nothing and prevent neither the device upsert nor the other
\* appends.
ValueFields ==
  {"intValue", "longValue", "floatValue", "doubleValue",
   "booleanValue", "stringValue", "bytesValue"}

CarriesValue(entry) == DOMAIN entry \cap ValueFields # {}

C12_OneRowPerValuedEntry ==
  Stored =>
    LET with == {j \in 1..Len(entries(msg)) : CarriesValue(entries(msg)[j])}
        new == metrics \ pre.metrics
    IN /\ Cardinality(new) = Cardinality(with)
       /\ \A j \in with : \E r \in new : r.name = entries(msg)[j].name
       /\ \E r \in devices : WrittenRow(r)

C12_Witness ==
  /\ Stored
  /\ Cardinality(metrics \ pre.metrics) = 2
  /\ \E j, k \in 1..Len(entries(msg)) :
       j < k /\ ~CarriesValue(entries(msg)[j]) /\ CarriesValue(entries(msg)[k])

\* C13: the online flag a message writes is false exactly when its kind
\* token is NDEATH or DDEATH, compared case-sensitively; any other token,
\* recognized, unrecognized or differently cased, writes true.
C13_OnlineFromKind ==
  Stored =>
    \E r \in devices :
      /\ r.id = device_row_id
      /\ r.online = IF message_type(msg) \in {"NDEATH", "DDEATH"} THEN 0 ELSE 1

C13_Witness ==
  /\ Stored
  /\ message_type(msg) = "ndeath"
  /\ \E r \in devices : r.id = device_row_id /\ r.online = 1

\* C14: a message whose first topic segment is not spBv1.0 is ignored,
\* whatever its payload: store_data is not called, devices and metrics are
\* unchanged.
C14_OutOfNamespaceIgnored ==
  (outcome # "none" /\ ~InNamespace(msg))
  => /\ pc = "idle"
     /\ outcome = "ignored"
     /\ ret = NotCalled
     /\ devices = pre.devices
     /\ metrics = pre.metrics

C14_Witness ==
  /\ outcome = "ignored"
  /\ ~InNamespace(msg)
  /\ bool(parse_payload(msg.payload))
  /\ entries(msg) # <<>>
  /\ devices # {}

\* C15: metrics are append-only: no step updates or deletes a committed
\* metric row, the set of metric rows only grows.
C15_AppendOnly == [][metrics \subseteq metrics']_vars

C15_Witness ==
  /\ Stored
  /\ pre.metrics # {}
  /\ metrics # pre.metrics
  /\ \E r0 \in pre.metrics, r \in metrics \ pre.metrics :
       r.device_id = r0.device_id /\ r.name = r0.name

\* ------------------------------------------------- reporting tool vocabulary
\* the process has returned from main
ViewerDone == viewer.pc = "done"

\* the lines of kind k in a report
LinesOf(report, k) == {n \in DOMAIN report : report[n].kind = k}

\* the number of value lines that directly follow line p of a report
RECURSIVE ValueRun(_, _)
ValueRun(report, p) ==
  IF p + 1 <= Len(report) /\ report[p + 1].kind = "value"
  THEN 1 + ValueRun(report, p + 1)
  ELSE 0

\* the stored metric row a printed line shows (values are distinct in the
\* sample databases)
RowOfLine(line) == CHOOSE m \in db.metrics : m.value = line.value

\* the rendering of a datatype tag the specification lays down
ExpectedLabel(tag) ==
  IF tag = 1 THEN "Int8" ELSE IF tag = 2 THEN "Int16" ELSE IF tag = 3 THEN "Int32"
  ELSE IF tag = 4 THEN "Int64" ELSE IF tag = 5 THEN "UInt8" ELSE IF tag = 6 THEN "UInt16"
  ELSE IF tag = 7 THEN "UInt32" ELSE IF tag = 8 THEN "UInt64" ELSE IF tag = 9 THEN "Float"
  ELSE IF tag = 10 THEN "Double" ELSE IF tag = 11 THEN "Boolean"
  ELSE IF tag = 12 THEN "String" ELSE IF tag = 13 THEN "DateTime"
  ELSE IF tag = 14 THEN "Text" ELSE str_int(tag)

\* C16: in the reporting tool a failure to open or read the storage is
\* reported as an error and the process exits with a non-zero status; a query
\* that returns no rows prints an empty report and the process exits with
\* status 0.
C16_StorageFailureExitsNonZero ==
  ViewerDone =>
    /\ viewer.storage # "ok" =>
         /\ viewer.args.devices => viewer.devices_report = <<ErrorLine("devices")>>
         /\ viewer.status # 0
    /\ (viewer.storage = "ok" /\ viewer.args.devices /\ db.devices = {}) =>
         /\ viewer.devices_report = <<[kind |-> "empty", what |-> "devices"]>>
         /\ viewer.status = 0

\* C17: print_device_metrics prints one group per metric name of the device;
\* the values of a group are printed newest first, they are the 5 most recent
\* rows of the group (all of them when the group has at most 5), and a group
\* of k > 5 rows is followed by a line counting exactly k - 5 remaining values,
\* a group of k <= 5 rows by none.
C17_GroupedLatestFive ==
  (/\ ViewerDone
   /\ viewer.storage = "ok"
   /\ viewer.args.device # NoArg
   /\ \E d \in db.devices : d.id = viewer.args.device)
  => LET report == viewer.device_report
         rows == {m \in db.metrics : m.device_id = viewer.args.device}
         names == {m.name : m \in rows}
     IN /\ {report[p].name : p \in LinesOf(report, "group")} = names
        /\ Cardinality(LinesOf(report, "group")) = Cardinality(names)
        /\ \A p \in LinesOf(report, "group") :
             LET group == {m \in rows : m.name = report[p].name}
                 k == Cardinality(group)
                 n == ValueRun(report, p)
                 shown(t) == Cardinality({j \in 1..n : report[p + j].timestamp = t})
                 stored(t) ==
                   Cardinality({m \in group : timestamp_str(m.timestamp) = t})
                 seconds == {timestamp_str(m.timestamp) : m \in group}
             IN /\ n = (IF k > 5 THEN 5 ELSE k)
                /\ \A j \in 1..(n - 1) :
                     report[p + j].timestamp >= report[p + j + 1].timestamp
                /\ \A j \in 1..n : report[p + j].timestamp \in seconds
                /\ \A t \in seconds :
                     /\ shown(t) <= stored(t)
                     /\ shown(t) < stored(t) =>
                          \A j \in 1..n : report[p + j].timestamp >= t
                /\ IF k > 5
                   THEN /\ p + n + 1 <= Len(report)
                        /\ report[p + n + 1] =
                             [kind |-> "more", name |-> report[p].name, count |-> k - 5]
                   ELSE \A q \in LinesOf(report, "more") : report[q].name # report[p].name

C17_Witness ==
  /\ ViewerDone
  /\ viewer.storage = "ok"
  /\ Cardinality(LinesOf(viewer.device_report, "group")) = 2
  /\ \E q \in LinesOf(viewer.device_report, "more") : viewer.device_report[q].count = 1
  /\ \E p \in LinesOf(viewer.device_report, "group") :
       /\ ValueRun(viewer.device_report, p) = 5
       /\ viewer.device_report[p + 1].timestamp > viewer.device_report[p + 5].timestamp

\* C18: both read paths print a stored datatype tag the same way: tags 1 to
\* 14 as Int8, Int16, Int32, Int64, UInt8, UInt16, UInt32, UInt64, Float,
\* Double, Boolean, String, DateTime, Text, and any other tag as its integer.
C18_DatatypeRendering ==
  (ViewerDone /\ viewer.storage = "ok")
  => /\ \A n \in LinesOf(viewer.latest_report, "metric") :
          viewer.latest_report[n].datatype =
            ExpectedLabel(RowOfLine(viewer.latest_report[n]).datatype)
     /\ \A n \in LinesOf(viewer.device_report, "value") :
          viewer.device_report[n].datatype =
            ExpectedLabel(RowOfLine(viewer.device_report[n]).datatype)
     /\ \A n \in LinesOf(viewer.latest_report, "metric"),
           q \in LinesOf(viewer.device_report, "value") :
          RowOfLine(viewer.latest_report[n]) = RowOfLine(viewer.device_report[q])
            => viewer.latest_report[n].datatype = viewer.device_report[q].datatype

C18_Witness ==
  /\ ViewerDone
  /\ viewer.storage = "ok"
  /\ \E n \in LinesOf(viewer.latest_report, "metric") :
       viewer.latest_report[n].datatype = "15"
  /\ \E n \in LinesOf(viewer.latest_report, "metric") :
       viewer.latest_report[n].datatype = "Boolean"
  /\ \E q \in LinesOf(viewer.device_report, "value") :
       viewer.device_report[q].datatype = "15"
  /\ \E q \in LinesOf(viewer.device_report, "value") :
       viewer.device_report[q].datatype = "Boolean"

\* Python's == on two values of known types: values of different types are
\* not equal
PyEq(ta, a, tb, b) == ta = tb /\ a = b

\* the entry the decoder returned has the datatype, the value and the
\* timestamp of the entry that was added
SameEntry(original, decoded) ==
  /\ DOMAIN decoded = DOMAIN original
  /\ \A f \in DOMAIN original \ {"name"} :
       PyEq(NativeType(f), original[f], DictType(f), decoded[f])

\* C19: encode then decode is a round trip: the metric list parse_payload
\* returns for a serialized envelope built with add_metric has the length and
\* order of the original and every entry has the original datatype, value and
\* timestamp.
C19_RoundTrip ==
  pub.pc = "decoded" =>
    /\ pub.payload_dict # PyNone
    /\ LET original == get(pub.payload, "metrics", <<>>)
           decoded == get(pub.payload_dict, "metrics", <<>>)
       IN /\ Len(decoded) = Len(original)
          /\ \A j \in 1..Len(original) : SameEntry(original[j], decoded[j])

\* C20: a message changes at most the one device row of its own identity;
\* every other device row keeps its online flag and last-seen, the
\* device-level rows under a node that received NDEATH included.
C20_OtherRowsUntouched ==
  /\ \A r0 \in pre.devices :
       r0 \notin devices => (r0.id = device_row_id /\ Ident(r0) = ident(msg))
  /\ \A r \in devices \ pre.devices :
       r.id = device_row_id /\ Ident(r) = ident(msg)
  /\ Cardinality(devices \ pre.devices) <= 1

C20_Witness ==
  /\ Stored
  /\ message_type(msg) = "NDEATH"
  /\ \E r \in pre.devices :
       /\ r.group_id = group_id(msg)
       /\ r.node_id = node_id(msg)
       /\ r.device_id # None
       /\ r.online = 1
       /\ r \in devices

\* the C21 property for the identities selected by `scope`
StableDeviceId(scope(_)) ==
  /\ \A r \in pre.devices :
       \E k \in Working.devices : k.id = r.id /\ Ident(k) = Ident(r)
  /\ ((pc \in {"metrics", "commit"} \/ Stored) /\ scope(ident(msg))) =>
       \A r \in pre.devices : Ident(r) = ident(msg) => device_row_id = r.id
  /\ \A m1, m2 \in Working.metrics :
       \A d1, d2 \in Working.devices :
         (/\ d1.id = m1.device_id
          /\ d2.id = m2.device_id
          /\ Ident(d1) = Ident(d2)
          /\ scope(Ident(d1)))
         => m1.device_id = m2.device_id

NamesNode(identity) == identity[2] # None

\* C21: device rows are never deleted and keep their id and identity; the id
\* store_data resolves for an identity is the id of the row already stored for
\* it, in every message; hence all metric rows appended for one identity
\* reference one and the same device row.  Stated for the identities that
\* name a node.
C21_StableDeviceId == StableDeviceId(NamesNode)

\* the kind of a published message: the third segment of its topic
KindOf(message) == split(message.topic)[3]

\* C22: in every run of the publisher, under every interleaving of the main
\* thread and the network-loop thread, every DDATA message is published after
\* the NBIRTH and the DBIRTH message.
C22_BirthsBeforeData ==
  pub # PubOff =>
    \A k \in DOMAIN pub.published :
      KindOf(pub.published[k]) = "DDATA" =>
        /\ \E n \in 1..(k - 1) : KindOf(pub.published[n]) = "NBIRTH"
        /\ \E n \in 1..(k - 1) : KindOf(pub.published[n]) = "DBIRTH"

====
